---- MODULE Spec2Model ----
(***************************************************************************)
(* Model of the authentication module app/auth_service.py: the users      *)
(* table behind it, and the request handlers signup, login,               *)
(* google_callback, facebook_callback, request_otp, verify_otp, logout    *)
(* and the OAuth start endpoints.                                         *)
(*                                                                         *)
(* Every request runs in one of MaxProcs request slots.  A handler is a   *)
(* sequence of steps; each step holds at most one access to something     *)
(* shared (one SQL statement with its commit, or one read of the clock)   *)
(* together with the local computation around it, so that the requests    *)
(* interleave exactly where the code lets them.                           *)
(***************************************************************************)
EXTENDS Integers, Sequences, FiniteSets, TLC

(* ------------------------------ bounds -------------------------------- *)
MaxProcs == 2
MaxUsers == 2
MaxIssues == 2
MaxTicks == 2
MaxRequests == 4
\* minutes the clock advances in one Tick
TickMinutes == 10

(* ------------------------- program constants -------------------------- *)
\* timedelta(minutes=10) in request_otp
OTP_TTL_MINUTES == 10
\* int(os.getenv("AUTH_JWT_EXPIRES_MINUTES", "60")): the default
JWT_EXPIRES_MINUTES == 60
\* secrets.randbelow(999999)
RANDBELOW_BOUND == 999999
\* the width of the format f"{...:06d}"
OTP_WIDTH == 6

(* --------------------------- value helpers ---------------------------- *)
\* SQL NULL / Python None, and a present value
None == <<>>
Some(v) == <<v>>
IsNone(o) == o = <<>>
Get(o) == o[1]

DigitChar(d) ==
    CASE d = 0 -> "0" [] d = 1 -> "1" [] d = 2 -> "2" [] d = 3 -> "3"
      [] d = 4 -> "4" [] d = 5 -> "5" [] d = 6 -> "6" [] d = 7 -> "7"
      [] d = 8 -> "8" [] d = 9 -> "9"

\* str(n) for n >= 0
RECURSIVE Str(_)
Str(n) == IF n < 10 THEN DigitChar(n) ELSE Str(n \div 10) \o DigitChar(n % 10)

\* f"{n:0wd}" for n >= 0: at least w digits, zero-padded on the left
RECURSIVE ZeroPad(_, _)
ZeroPad(n, w) ==
    IF w = 0 THEN (IF n = 0 THEN "" ELSE Str(n))
    ELSE ZeroPad(n \div 10, w - 1) \o DigitChar(n % 10)

\* mutation of FormatOtp: the draw is not padded
FormatOtp_NoPad(n) == Str(n)

\* the code request_otp makes of a draw
FormatOtp(n) == ZeroPad(n, OTP_WIDTH)

\* pwd_context.hash: bcrypt_sha256 with a fresh salt
HashPassword(password, salt) == <<"bcrypt_sha256", salt, password>>

\* pwd_context.verify: re-hash with the digest's salt and compare
VerifyPassword(password, hashed) == HashPassword(password, hashed[2]) = hashed

\* the email facebook_callback derives from the code
FacebookEmail(code) == "facebook_user_" \o code \o "@example.com"

(* --------------------------- input domains ---------------------------- *)
Procs == 1..MaxProcs
OAuthCodes == {"c1"}
Emails == {"a@x.com"}
Passwords == {"pw1", "pw2"}
Salts == {"s1"}
DisplayNames == {Some("Bob")}
\* new_password: Optional[str] = None; the empty string is a str
NewPasswords == {None, Some(""), Some("pw2")}
\* values secrets.randbelow may return (all below RANDBELOW_BOUND)
OtpDraws == {7, RANDBELOW_BOUND - 1}
\* the codes a client may send
OtpInputs == {FormatOtp(n) : n \in OtpDraws}

VARIABLES
    users,        \* the users table, in primary-key order
    uniqueEmail,  \* whether the table's schema carries UNIQUE(email)
    now,          \* datetime.utcnow(), in minutes
    pc,           \* each request slot's position in its handler
    req,          \* each slot's request payload
    loc,          \* each slot's local variables
    served,       \* number of requests that have arrived (history)
    last,         \* the response the step just taken has sent, with its request
    stored,       \* the codes stored so far, in order: email, code, time read (history)
    verified,     \* per stored code, the verify_otp requests it got a token (history)
    signedUp      \* emails for which a signup has answered 200 (history)

vars == <<users, uniqueEmail, now, pc, req, loc, last, served, stored, verified, signedUp>>

(* ------------------------------ the store ----------------------------- *)
\* positions of the rows WHERE email = %s, in primary-key order
RowsByEmail(email) == {i \in 1..Len(users) : users[i].email = email}

Min(S) == CHOOSE x \in S : \A y \in S : x <= y

\* cursor.fetchone() after SELECT ... WHERE email = %s: the first row, or None
FirstRow(email) ==
    IF RowsByEmail(email) = {} THEN None ELSE Some(users[Min(RowsByEmail(email))])

\* _get_user_by_email: the row's columns id .. provider_id
GetUserByEmail(email) ==
    IF IsNone(FirstRow(email)) THEN None
    ELSE LET row == Get(FirstRow(email)) IN
         Some([id |-> row.id, email |-> row.email,
               password_hash |-> row.password_hash,
               display_name |-> row.display_name,
               provider |-> row.provider, provider_id |-> row.provider_id])

\* the row INSERT INTO users (email, password_hash, display_name, provider,
\* provider_id) creates: the next primary key, the OTP columns NULL
NewUser(email, password_hash, display_name, provider, provider_id) ==
    [id |-> Len(users) + 1, email |-> email, password_hash |-> password_hash,
     display_name |-> display_name, provider |-> provider,
     provider_id |-> provider_id, otp_code |-> None, otp_expires_at |-> None,
     otp_serial |-> 0]

\* whether the INSERT is refused: the schema of the users table is not part of
\* the module; where it declares email a unique key, a duplicate raises
InsertRefused(email) == uniqueEmail /\ RowsByEmail(email) # {}

\* _insert_user's INSERT and commit
InsertUser(email, password_hash, display_name, provider, provider_id) ==
    Append(users, NewUser(email, password_hash, display_name, provider, provider_id))

\* mutation of SetOtp: the WHERE clause is dropped
SetOtp_AllRows(email, otp, expires_at, serial) ==
    [i \in 1..Len(users) |->
        [users[i] EXCEPT !.otp_code = Some(otp),
                         !.otp_expires_at = Some(expires_at),
                         !.otp_serial = serial]]

\* mutation of SetOtp: a code already on file is not overwritten
SetOtp_KeepOld(email, otp, expires_at, serial) ==
    [i \in 1..Len(users) |->
        IF users[i].email = email /\ IsNone(users[i].otp_code)
        THEN [users[i] EXCEPT !.otp_code = Some(otp),
                              !.otp_expires_at = Some(expires_at),
                              !.otp_serial = serial]
        ELSE users[i]]

\* UPDATE users SET otp_code = %s, otp_expires_at = %s WHERE email = %s,
\* on every matching row (otp_serial: which stored code it is, history)
SetOtp(email, otp, expires_at, serial) ==
    [i \in 1..Len(users) |->
        IF users[i].email = email
        THEN [users[i] EXCEPT !.otp_code = Some(otp),
                              !.otp_expires_at = Some(expires_at),
                              !.otp_serial = serial]
        ELSE users[i]]

\* mutation of ClearOtp: only otp_code is set to NULL
ClearOtp_CodeOnly(email) ==
    [i \in 1..Len(users) |->
        IF users[i].email = email
        THEN [users[i] EXCEPT !.otp_code = None, !.otp_serial = 0]
        ELSE users[i]]

\* UPDATE users SET otp_code = NULL, otp_expires_at = NULL WHERE email = %s
ClearOtp(email) ==
    [i \in 1..Len(users) |->
        IF users[i].email = email
        THEN [users[i] EXCEPT !.otp_code = None, !.otp_expires_at = None,
                              !.otp_serial = 0]
        ELSE users[i]]

\* UPDATE users SET password_hash = %s WHERE email = %s
UpdatePassword(email, password_hash) ==
    [i \in 1..Len(users) |->
        IF users[i].email = email
        THEN [users[i] EXCEPT !.password_hash = Some(password_hash)]
        ELSE users[i]]

(* ------------------------------ requests ------------------------------ *)
NoReq ==
    [op |-> "none", email |-> "", password |-> "", display_name |-> None,
     otp |-> "", new_password |-> None, code |-> "",
     late |-> FALSE, seen |-> {}, arrived |-> 0, issued |-> 0]

SignupRequests ==
    {[NoReq EXCEPT !.op = "signup", !.email = e, !.password = w, !.display_name = d] :
        e \in Emails, w \in Passwords, d \in DisplayNames}

LoginRequests ==
    {[NoReq EXCEPT !.op = "login", !.email = e, !.password = w] :
        e \in Emails, w \in Passwords}

GoogleRequests == {[NoReq EXCEPT !.op = "google_callback", !.code = c] : c \in OAuthCodes}

FacebookRequests == {[NoReq EXCEPT !.op = "facebook_callback", !.code = c] : c \in OAuthCodes}

OtpRequests == {[NoReq EXCEPT !.op = "request_otp", !.email = e] : e \in Emails}

VerifyRequests ==
    {[NoReq EXCEPT !.op = "verify_otp", !.email = e, !.otp = o, !.new_password = n] :
        e \in Emails, o \in OtpInputs, n \in NewPasswords}

ReadOnlyRequests ==
    {[NoReq EXCEPT !.op = o] : o \in {"logout", "google_start", "facebook_start"}}

\* what Google's token endpoint and the decoding of its id_token may give:
\* no client id or secret configured; client.post or .json() raising (the
\* transport failed, the body is no JSON); a status other than 200; an id_token
\* that does not decode; the claims, with or without an email
GoogleOutcomes ==
    {[kind |-> k, email |-> None, sub |-> None, name |-> None] :
        k \in {"unconfigured", "transport_error", "exchange_failed",
               "invalid_id_token"}}
    \cup {[kind |-> "claims", email |-> e, sub |-> Some("g1"), name |-> Some("Ann")] :
            e \in {None, Some(""), Some("a@x.com")}}

NoLoc ==
    [user |-> None, row |-> None, otp |-> "", expires_at |-> 0, sub |-> 0,
     email |-> "", display_name |-> None, provider_id |-> None,
     serial |-> 0, read_at |-> 0, exchanged |-> FALSE, outcome |-> ""]

\* no response was sent by the step just taken
NoLast == [proc |-> 0, req |-> NoReq, loc |-> NoLoc, status |-> 0, token |-> None]

\* the operations that may INSERT, and how many of them are under way
InsertOps == {"signup", "google_callback", "facebook_callback"}
InsertsUnderWay == Cardinality({q \in Procs : req[q].op \in InsertOps})
IssuesUnderWay == Cardinality({q \in Procs : req[q].op = "request_otp"})

FirstStep(op) ==
    CASE op = "signup" -> "signup_select"
      [] op = "login" -> "login_select"
      [] op = "google_callback" -> "google_exchange"
      [] op = "facebook_callback" -> "facebook_select"
      [] op = "request_otp" -> "otp_select"
      [] op = "verify_otp" -> "verify_select"
      [] OTHER -> "read_only"

TypeOK ==
    /\ uniqueEmail \in BOOLEAN
    /\ now \in Nat
    /\ Len(users) <= MaxUsers
    /\ \A i \in 1..Len(users) : users[i].id = i
    /\ Len(stored) <= MaxIssues
    /\ served \in 0..MaxRequests
    /\ Len(verified) = Len(stored)
    /\ \A p \in Procs : pc[p] = "idle" <=> req[p] = NoReq

Init ==
    /\ users = <<>>
    /\ uniqueEmail \in BOOLEAN
    /\ now = 0
    /\ pc = [p \in Procs |-> "idle"]
    /\ req = [p \in Procs |-> NoReq]
    /\ loc = [p \in Procs |-> NoLoc]
    /\ last = NoLast
    /\ served = 0
    /\ stored = <<>>
    /\ verified = <<>>
    /\ signedUp = {}

\* (exchanged in NoLoc: whether a provider's code exchange has succeeded and
\* given an email; outcome: what the exchange gave; both history)

\* the handler returns or raises: the response goes out, the slot is free
\* (l: the locals it ends with)
AnswerWith(p, status, token, l) ==
    /\ pc' = [pc EXCEPT ![p] = "idle"]
    /\ req' = [req EXCEPT ![p] = NoReq]
    /\ loc' = [loc EXCEPT ![p] = NoLoc]
    /\ last' = [proc |-> p, req |-> req[p], loc |-> l,
                status |-> status, token |-> token]

Answer(p, status, token) == AnswerWith(p, status, token, loc[p])

\* the handler goes on to its next step with the locals l
Goto(p, step, l) ==
    /\ pc' = [pc EXCEPT ![p] = step]
    /\ loc' = [loc EXCEPT ![p] = l]
    /\ last' = NoLast
    /\ UNCHANGED req

\* the handler goes on to _create_token({"sub": str(sub), "email": email})
ToToken(p, sub, email) ==
    Goto(p, "create_token", [loc[p] EXCEPT !.sub = sub, !.email = email])

\* what the model remembers of a request's arrival (history): late, a signup
\* arriving after a signup for its email has answered 200; seen, the stored
\* codes that have already got some verify_otp its token; arrived, the time
\* of a verify_otp; issued, the number of codes stored so far
Arrival(r) ==
    [r EXCEPT !.late = (r.op = "signup" /\ r.email \in signedUp),
              !.seen = IF r.op = "verify_otp"
                       THEN {s \in 1..Len(stored) : verified[s] >= 1} ELSE {},
              !.arrived = IF r.op = "verify_otp" THEN now ELSE 0,
              !.issued = IF r.op = "verify_otp" THEN Len(stored) ELSE 0]

\* a request arrives
Start(p) ==
    /\ pc[p] = "idle"
    /\ served < MaxRequests
    /\ \E r \in SignupRequests \cup LoginRequests \cup GoogleRequests
                \cup FacebookRequests \cup OtpRequests \cup VerifyRequests
                \cup ReadOnlyRequests :
        /\ r.op \in InsertOps => Len(users) + InsertsUnderWay < MaxUsers
        /\ r.op = "request_otp" => Len(stored) + IssuesUnderWay < MaxIssues
        /\ req' = [req EXCEPT ![p] = Arrival(r)]
        /\ pc' = [pc EXCEPT ![p] = FirstStep(r.op)]
    /\ last' = NoLast
    /\ served' = served + 1
    /\ UNCHANGED <<users, uniqueEmail, now, loc, stored, verified, signedUp>>

\* the clock advances
Tick ==
    /\ now < MaxTicks * TickMinutes
    /\ now' = now + TickMinutes
    /\ last' = NoLast
    /\ UNCHANGED <<users, uniqueEmail, pc, req, loc, served, stored, verified, signedUp>>

\* mutation of TokenClaims: the TTL is not added
TokenClaims_NoTtl(sub, email) == [sub |-> Str(sub), email |-> email, exp |-> now]

\* the claims _create_token signs: the payload and exp = utcnow() + the TTL
TokenClaims(sub, email) ==
    [sub |-> Str(sub), email |-> email, exp |-> now + JWT_EXPIRES_MINUTES]

\* _create_token and the 200 response that carries the token
CreateToken(p) ==
    /\ pc[p] = "create_token"
    /\ Answer(p, 200, Some(TokenClaims(loc[p].sub, loc[p].email)))
    /\ signedUp' = IF req[p].op = "signup" THEN signedUp \cup {req[p].email} ELSE signedUp
    /\ verified' = IF req[p].op = "verify_otp" /\ loc[p].serial # 0
                   THEN [verified EXCEPT ![loc[p].serial] = @ + 1] ELSE verified
    /\ UNCHANGED <<users, uniqueEmail, now, served, stored>>

\* mutation of SignupSelect: the pre-check is dropped
SignupSelect_NoCheck(p) ==
    /\ pc[p] = "signup_select"
    /\ Goto(p, "signup_insert", loc[p])
    /\ UNCHANGED <<users, uniqueEmail, now, served, stored, verified, signedUp>>

\* mutation of SignupSelect: a signup for a registered email resets its password
SignupSelect_Overwrites(p) ==
    /\ pc[p] = "signup_select"
    /\ IF ~IsNone(GetUserByEmail(req[p].email))
       THEN /\ Answer(p, 400, None)
            /\ \E salt \in Salts :
                 users' = UpdatePassword(req[p].email,
                                         HashPassword(req[p].password, salt))
       ELSE Goto(p, "signup_insert", loc[p]) /\ UNCHANGED users
    /\ UNCHANGED <<uniqueEmail, now, served, stored, verified, signedUp>>

\* signup: existing = _get_user_by_email(payload.email); 400 if existing
SignupSelect(p) ==
    /\ pc[p] = "signup_select"
    /\ IF ~IsNone(GetUserByEmail(req[p].email))
       THEN Answer(p, 400, None)
       ELSE Goto(p, "signup_insert", loc[p])
    /\ UNCHANGED <<users, uniqueEmail, now, served, stored, verified, signedUp>>

\* signup: _hash_password, _insert_user(..., provider="local", provider_id=None)
SignupInsert(p) ==
    /\ pc[p] = "signup_insert"
    /\ IF InsertRefused(req[p].email)
       THEN Answer(p, 500, None) /\ UNCHANGED users
       ELSE \E salt \in Salts :
             /\ users' = InsertUser(req[p].email,
                                    Some(HashPassword(req[p].password, salt)),
                                    req[p].display_name, "local", None)
             /\ ToToken(p, Len(users) + 1, req[p].email)
    /\ UNCHANGED <<uniqueEmail, now, served, stored, verified, signedUp>>

\* whether login lets the request through: the user is there, has a hash, and
\* the password verifies against it
LoginAccepts(user, password) ==
    /\ ~IsNone(user)
    /\ ~IsNone(Get(user).password_hash)
    /\ VerifyPassword(password, Get(Get(user).password_hash))

\* mutation of LoginSelect: a login that gets through discards the code on file
LoginSelect_ClearsOtp(p) ==
    /\ pc[p] = "login_select"
    /\ LET user == GetUserByEmail(req[p].email) IN
       IF ~LoginAccepts(user, req[p].password)
       THEN Answer(p, 401, None) /\ UNCHANGED users
       ELSE ToToken(p, Get(user).id, Get(user).email)
            /\ users' = ClearOtp(req[p].email)
    /\ UNCHANGED <<uniqueEmail, now, served, stored, verified, signedUp>>

\* login: the lookup and the password check
LoginSelect(p) ==
    /\ pc[p] = "login_select"
    /\ LET user == GetUserByEmail(req[p].email) IN
       IF ~LoginAccepts(user, req[p].password)
       THEN Answer(p, 401, None)
       ELSE ToToken(p, Get(user).id, Get(user).email)
    /\ UNCHANGED <<users, uniqueEmail, now, served, stored, verified, signedUp>>

\* logout, google_start, facebook_start: an answer built from configuration
ReadOnly(p) ==
    /\ pc[p] = "read_only"
    /\ Answer(p, 200, None)
    /\ UNCHANGED <<users, uniqueEmail, now, served, stored, verified, signedUp>>

\* google_callback up to the email check: the configuration, the code exchange,
\* the decoding of the id_token
GoogleExchange(p) ==
    /\ pc[p] = "google_exchange"
    /\ \E o \in GoogleOutcomes :
        LET l == [loc[p] EXCEPT !.outcome = o.kind] IN
        IF o.kind \in {"unconfigured", "transport_error"}
        THEN AnswerWith(p, 500, None, l)
        ELSE IF o.kind \in {"exchange_failed", "invalid_id_token"}
        THEN AnswerWith(p, 400, None, l)
        ELSE IF IsNone(o.email) \/ Get(o.email) = "" THEN AnswerWith(p, 400, None, l)
        ELSE Goto(p, "google_select",
                  [l EXCEPT !.email = Get(o.email), !.provider_id = o.sub,
                            !.display_name = o.name, !.exchanged = TRUE])
    /\ UNCHANGED <<users, uniqueEmail, now, served, stored, verified, signedUp>>

\* mutation of GoogleSelect: the existing record is linked to the Google identity
GoogleSelect_Links(p) ==
    /\ pc[p] = "google_select"
    /\ LET user == GetUserByEmail(loc[p].email) IN
       IF IsNone(user)
       THEN Goto(p, "google_insert", loc[p]) /\ UNCHANGED users
       ELSE /\ ToToken(p, Get(user).id, loc[p].email)
            /\ users' = [i \in 1..Len(users) |->
                            IF users[i].email = loc[p].email
                            THEN [users[i] EXCEPT !.provider = "google",
                                                  !.provider_id = loc[p].provider_id]
                            ELSE users[i]]
    /\ UNCHANGED <<uniqueEmail, now, served, stored, verified, signedUp>>

\* google_callback: user = _get_user_by_email(email)
GoogleSelect(p) ==
    /\ pc[p] = "google_select"
    /\ LET user == GetUserByEmail(loc[p].email) IN
       IF IsNone(user)
       THEN Goto(p, "google_insert", loc[p])
       ELSE ToToken(p, Get(user).id, loc[p].email)
    /\ UNCHANGED <<users, uniqueEmail, now, served, stored, verified, signedUp>>

\* google_callback: _insert_user(email, None, display_name, "google", google_id)
GoogleInsert(p) ==
    /\ pc[p] = "google_insert"
    /\ IF InsertRefused(loc[p].email)
       THEN Answer(p, 500, None) /\ UNCHANGED users
       ELSE /\ users' = InsertUser(loc[p].email, None, loc[p].display_name,
                                   "google", loc[p].provider_id)
            /\ ToToken(p, Len(users) + 1, loc[p].email)
    /\ UNCHANGED <<uniqueEmail, now, served, stored, verified, signedUp>>

\* facebook_callback: the email made of the code, and the lookup
FacebookSelect(p) ==
    /\ pc[p] = "facebook_select"
    /\ LET email == FacebookEmail(req[p].code)
           user == GetUserByEmail(email) IN
       IF IsNone(user)
       THEN Goto(p, "facebook_insert", [loc[p] EXCEPT !.email = email])
       ELSE ToToken(p, Get(user).id, email)
    /\ UNCHANGED <<users, uniqueEmail, now, served, stored, verified, signedUp>>

\* facebook_callback: _insert_user(email, None, None, "facebook", email)
FacebookInsert(p) ==
    /\ pc[p] = "facebook_insert"
    /\ IF InsertRefused(loc[p].email)
       THEN Answer(p, 500, None) /\ UNCHANGED users
       ELSE /\ users' = InsertUser(loc[p].email, None, None, "facebook",
                                   Some(loc[p].email))
            /\ ToToken(p, Len(users) + 1, loc[p].email)
    /\ UNCHANGED <<uniqueEmail, now, served, stored, verified, signedUp>>

\* request_otp: the lookup, 404 if there is no such user
OtpSelect(p) ==
    /\ pc[p] = "otp_select"
    /\ IF IsNone(GetUserByEmail(req[p].email))
       THEN Answer(p, 404, None)
       ELSE Goto(p, "otp_issue", loc[p])
    /\ UNCHANGED <<users, uniqueEmail, now, served, stored, verified, signedUp>>

\* request_otp: the draw of the code and expires_at = utcnow() + 10 minutes
\* (read_at: the time read, history)
OtpIssue(p) ==
    /\ pc[p] = "otp_issue"
    /\ \E n \in OtpDraws :
        Goto(p, "otp_set", [loc[p] EXCEPT !.otp = FormatOtp(n),
                                          !.expires_at = now + OTP_TTL_MINUTES,
                                          !.read_at = now])
    /\ UNCHANGED <<users, uniqueEmail, now, served, stored, verified, signedUp>>

\* request_otp: _set_otp, the email, the 200 response
OtpSet(p) ==
    /\ pc[p] = "otp_set"
    /\ users' = SetOtp(req[p].email, loc[p].otp, loc[p].expires_at, Len(stored) + 1)
    /\ stored' = Append(stored, [email |-> req[p].email, code |-> loc[p].otp,
                                 at |-> loc[p].read_at])
    /\ verified' = Append(verified, 0)
    /\ Answer(p, 200, None)
    /\ UNCHANGED <<uniqueEmail, now, served, signedUp>>

\* verify_otp: the lookup, 404 if there is no such user
VerifySelect(p) ==
    /\ pc[p] = "verify_select"
    /\ LET user == GetUserByEmail(req[p].email) IN
       IF IsNone(user)
       THEN Answer(p, 404, None)
       ELSE Goto(p, "consume_select", [loc[p] EXCEPT !.user = user])
    /\ UNCHANGED <<users, uniqueEmail, now, served, stored, verified, signedUp>>

\* mutation of ConsumeSelect: a wrong code discards the code on file
ConsumeSelect_ClearsOnMismatch(p) ==
    /\ pc[p] = "consume_select"
    /\ LET row == FirstRow(req[p].email) IN
       IF IsNone(row) THEN Answer(p, 400, None) /\ UNCHANGED users
       ELSE IF IsNone(Get(row).otp_code) \/ Get(Get(row).otp_code) # req[p].otp
       THEN Answer(p, 400, None) /\ users' = ClearOtp(req[p].email)
       ELSE /\ Goto(p, IF IsNone(Get(row).otp_expires_at) THEN "consume_update"
                       ELSE "consume_clock",
                    [loc[p] EXCEPT !.row = Some([otp_code |-> Get(row).otp_code,
                                        otp_expires_at |-> Get(row).otp_expires_at]),
                                   !.serial = Get(row).otp_serial])
            /\ UNCHANGED users
    /\ UNCHANGED <<uniqueEmail, now, served, stored, verified, signedUp>>

\* _consume_otp: SELECT otp_code, otp_expires_at; False if there is no row, no
\* code, or another code (serial: which stored code was read, history)
ConsumeSelect(p) ==
    /\ pc[p] = "consume_select"
    /\ LET row == FirstRow(req[p].email) IN
       IF IsNone(row) THEN Answer(p, 400, None)
       ELSE IF IsNone(Get(row).otp_code) \/ Get(Get(row).otp_code) # req[p].otp
       THEN Answer(p, 400, None)
       ELSE Goto(p, IF IsNone(Get(row).otp_expires_at) THEN "consume_update"
                    ELSE "consume_clock",
                 [loc[p] EXCEPT !.row = Some([otp_code |-> Get(row).otp_code,
                                     otp_expires_at |-> Get(row).otp_expires_at]),
                                !.serial = Get(row).otp_serial])
    /\ UNCHANGED <<users, uniqueEmail, now, served, stored, verified, signedUp>>

\* mutation of ConsumeClock: the expiry is not looked at
ConsumeClock_NoExpiry(p) ==
    /\ pc[p] = "consume_clock"
    /\ Goto(p, "consume_update", loc[p])
    /\ UNCHANGED <<users, uniqueEmail, now, served, stored, verified, signedUp>>

\* mutation of ConsumeClock: an expired code is cleared when it is rejected
ConsumeClock_ClearsExpired(p) ==
    /\ pc[p] = "consume_clock"
    /\ IF now > Get(Get(loc[p].row).otp_expires_at)
       THEN Answer(p, 400, None) /\ users' = ClearOtp(req[p].email)
       ELSE Goto(p, "consume_update", loc[p]) /\ UNCHANGED users
    /\ UNCHANGED <<uniqueEmail, now, served, stored, verified, signedUp>>

\* _consume_otp: False if datetime.utcnow() > expires_at
ConsumeClock(p) ==
    /\ pc[p] = "consume_clock"
    /\ IF now > Get(Get(loc[p].row).otp_expires_at)
       THEN Answer(p, 400, None)
       ELSE Goto(p, "consume_update", loc[p])
    /\ UNCHANGED <<users, uniqueEmail, now, served, stored, verified, signedUp>>

\* verify_otp's test "if payload.new_password": None and "" are false
HasNewPassword(r) == ~IsNone(r.new_password) /\ Get(r.new_password) # ""

\* mutation of ConsumeUpdate: the code is left on file
ConsumeUpdate_NoClear(p) ==
    /\ pc[p] = "consume_update"
    /\ UNCHANGED users
    /\ IF HasNewPassword(req[p])
       THEN Goto(p, "verify_password", loc[p])
       ELSE ToToken(p, Get(loc[p].user).id, Get(loc[p].user).email)
    /\ UNCHANGED <<uniqueEmail, now, served, stored, verified, signedUp>>

\* _consume_otp: the clearing UPDATE and commit, return True; verify_otp goes
\* on to the password or to the token
ConsumeUpdate(p) ==
    /\ pc[p] = "consume_update"
    /\ users' = ClearOtp(req[p].email)
    /\ IF HasNewPassword(req[p])
       THEN Goto(p, "verify_password", loc[p])
       ELSE ToToken(p, Get(loc[p].user).id, Get(loc[p].user).email)
    /\ UNCHANGED <<uniqueEmail, now, served, stored, verified, signedUp>>

\* verify_otp: _update_password(payload.email, _hash_password(payload.new_password))
VerifyUpdatePassword(p) ==
    /\ pc[p] = "verify_password"
    /\ \E salt \in Salts :
        users' = UpdatePassword(req[p].email,
                                HashPassword(Get(req[p].new_password), salt))
    /\ ToToken(p, Get(loc[p].user).id, Get(loc[p].user).email)
    /\ UNCHANGED <<uniqueEmail, now, served, stored, verified, signedUp>>

Next ==
    \/ Tick
    \/ \E p \in Procs :
        \/ Start(p)
        \/ CreateToken(p)
        \/ SignupSelect(p)
        \/ SignupInsert(p)
        \/ LoginSelect(p)
        \/ ReadOnly(p)
        \/ GoogleExchange(p)
        \/ GoogleSelect(p)
        \/ GoogleInsert(p)
        \/ FacebookSelect(p)
        \/ FacebookInsert(p)
        \/ OtpSelect(p)
        \/ OtpIssue(p)
        \/ OtpSet(p)
        \/ VerifySelect(p)
        \/ ConsumeSelect(p)
        \/ ConsumeClock(p)
        \/ ConsumeUpdate(p)
        \/ VerifyUpdatePassword(p)

Spec == Init /\ [][Next]_vars

(* ------------------------------- claims ------------------------------- *)

\* the rows of the email e
RowsOf(e) == {i \in 1..Len(users) : users[i].email = e}

\* the last code stored for the email e (0: none)
LatestStored(e) ==
    IF \E s \in 1..Len(stored) : stored[s].email = e
    THEN CHOOSE s \in 1..Len(stored) :
            stored[s].email = e /\ \A t \in 1..Len(stored) : stored[t].email = e => t <= s
    ELSE 0

\* C1: however verify_otp requests for one email that carry the same valid
\* code interleave, at most one of them gets a token: no stored code gets two
\* verify_otp requests their tokens.
C1_AtMostOneTokenPerCode == \A s \in 1..Len(verified) : verified[s] <= 1

C3_LateSignupConflict ==
    [][\A p \in Procs :
        (req[p].op = "signup" /\ req[p].late /\ pc'[p] # pc[p])
            => (users' = users /\ last'.proc = p /\ last'.status = 400)]_vars

\* a late signup with another password than the stored one has been answered 400
C3_Witness ==
    /\ last.req.op = "signup" /\ last.req.late /\ last.status = 400
    /\ \E i \in RowsOf(last.req.email) :
        /\ ~IsNone(users[i].password_hash)
        /\ Get(users[i].password_hash)[3] # last.req.password

\* whether some user with the email has a hash the password verifies against
SomeUserVerifies(email, password) ==
    \E i \in RowsOf(email) :
        /\ ~IsNone(users[i].password_hash)
        /\ Get(users[i].password_hash)[3] = password

C5_VerifyOnce ==
    last.req.op = "verify_otp" =>
        /\ last.status = 200 => last.loc.serial \notin last.req.seen
        /\ (/\ LatestStored(last.req.email) \in last.req.seen
            /\ stored[LatestStored(last.req.email)].code = last.req.otp)
              => last.status = 400
        /\ (last.status = 400 /\ IsNone(last.loc.row))
              => \A i \in RowsOf(last.req.email) : i = Min(RowsOf(last.req.email))
                    => (IsNone(users[i].otp_code) \/ Get(users[i].otp_code) # last.req.otp)
        /\ (last.status = 400 /\ ~IsNone(last.loc.row))
              => now > Get(Get(last.loc.row).otp_expires_at)

\* the second verify_otp with a code that has already been used, and that is
\* still the last one stored, has been answered 400
C5_Witness ==
    /\ last.req.op = "verify_otp" /\ last.status = 400
    /\ LatestStored(last.req.email) \in last.req.seen
    /\ stored[LatestStored(last.req.email)].code = last.req.otp

\* C6: a code expires 10 minutes after request_otp read the clock, and a
\* verify_otp that arrives later than the expiry of the code it matches is
\* answered 400: it never reaches the clearing of the code, the password
\* update or the token.
C6_ExpiredRejected ==
    /\ \A i \in 1..Len(users) :
        users[i].otp_serial # 0
            => users[i].otp_expires_at = Some(stored[users[i].otp_serial].at + 10)
    /\ \A p \in Procs :
        (req[p].op = "verify_otp"
            /\ pc[p] \in {"consume_update", "verify_password", "create_token"})
            => req[p].arrived <= Get(Get(loc[p].row).otp_expires_at)
    /\ (last.req.op = "verify_otp" /\ ~IsNone(last.loc.row)
            /\ last.req.arrived > Get(Get(last.loc.row).otp_expires_at))
            => (last.status = 400 /\ IsNone(last.token))

\* a verify_otp with the stored code, arrived after its expiry, was answered 400
C6_Witness ==
    /\ last.req.op = "verify_otp" /\ last.status = 400
    /\ ~IsNone(last.loc.row)
    /\ Get(last.loc.row).otp_code = Some(last.req.otp)
    /\ last.req.arrived > Get(Get(last.loc.row).otp_expires_at)

\* C7: the OAuth callbacks create at most one record per email, however they
\* interleave, and a callback that reached the lookup answers with a token.
C7_CallbackOneUser ==
    /\ \A i, j \in 1..Len(users) :
        (/\ users[i].provider \in {"google", "facebook"}
         /\ users[j].provider \in {"google", "facebook"}
         /\ users[i].email = users[j].email) => i = j
    /\ (last.req.op \in {"google_callback", "facebook_callback"}
            /\ last.loc.email # "") => last.status = 200

\* the email a request is about: the payload's, the one made of the code
\* (facebook), the one of the id_token's claims (google)
EmailOf(l) ==
    IF l.req.op = "facebook_callback" THEN FacebookEmail(l.req.code)
    ELSE IF l.req.op = "google_callback" THEN l.loc.email
    ELSE l.req.email

C9_OtpFieldsTogether ==
    \A i \in 1..Len(users) :
        IsNone(users[i].otp_code) <=> IsNone(users[i].otp_expires_at)

\* a stored code has been consumed: both fields are null again
C9_Witness ==
    /\ last.req.op = "verify_otp" /\ last.status = 200
    /\ \A i \in RowsOf(last.req.email) :
        IsNone(users[i].otp_code) /\ IsNone(users[i].otp_expires_at)

\* whether the record(s) of the email hold no code and no expiry
OtpCleared(us, e) ==
    \A i \in 1..Len(us) :
        us[i].email = e => (IsNone(us[i].otp_code) /\ IsNone(us[i].otp_expires_at))

\* C10 as stated: when verify_otp has answered with a token, and when it has
\* rejected a code as expired, otp_code and otp_expires_at are null.
C10_ClearedAfterVerify ==
    (/\ last.req.op = "verify_otp"
     /\ \/ last.status = 200
        \/ (last.status = 400 /\ ~IsNone(last.loc.row)))
        => OtpCleared(users, last.req.email)

\* C10 as amended: the consuming step of verify_otp leaves otp_code and
\* otp_expires_at null; the rejection of an expired code changes no record
\* (what is on file stays on file).
C10_ConsumedClearedExpiredKept ==
    [][\A p \in Procs :
        /\ (pc[p] = "consume_update" /\ pc'[p] # pc[p])
              => OtpCleared(users', req[p].email)
        /\ (pc[p] = "consume_clock" /\ pc'[p] = "idle")
              => users' = users]_vars

\* an expired code has been rejected and is still on file
C10_Witness ==
    /\ last.req.op = "verify_otp" /\ last.status = 400
    /\ ~IsNone(last.loc.row)
    /\ ~OtpCleared(users, last.req.email)

\* whether the step taken is one of the request in slot p
StepOf(p) == pc'[p] # pc[p]

\* whether the step taken has answered the request in slot p with the status
Answered(p, status) == last'.proc = p /\ last'.status = status

\* whether the step taken has changed the password_hash of an existing record
PasswordChanged ==
    \E i \in 1..Len(users) : users'[i].password_hash # users[i].password_hash

\* whether the first record of the email holds the code
CodeOnFile(email, otp) ==
    /\ ~IsNone(FirstRow(email))
    /\ Get(FirstRow(email)).otp_code = Some(otp)

\* C11: verify_otp answers 404 exactly when no user has the email; otherwise
\* 400 exactly when the code on file is absent or another one, or the clock is
\* past the expiry of the code read; otherwise it consumes the code and
\* answers 200 with a token.  The password_hash of the email's records is
\* replaced by a hash of new_password exactly when the code was consumed and
\* new_password is present; no other step of verify_otp changes a
\* password_hash.
C11_VerifyOtpContract ==
    [][\A p \in Procs :
        (req[p].op = "verify_otp" /\ StepOf(p)) =>
            /\ pc[p] = "verify_select"
                  => (Answered(p, 404) <=> RowsOf(req[p].email) = {})
            /\ pc[p] = "consume_select"
                  => (Answered(p, 400) <=> ~CodeOnFile(req[p].email, req[p].otp))
            /\ pc[p] = "consume_clock"
                  => (Answered(p, 400) <=> now > Get(Get(loc[p].row).otp_expires_at))
            /\ pc'[p] = "idle"
                  => \/ (pc[p] = "verify_select" /\ Answered(p, 404))
                     \/ (pc[p] \in {"consume_select", "consume_clock"} /\ Answered(p, 400))
                     \/ (pc[p] = "create_token" /\ Answered(p, 200) /\ ~IsNone(last'.token))
            /\ pc[p] = "consume_update"
                  => (pc'[p] = "verify_password" <=> ~IsNone(req[p].new_password))
            /\ pc[p] = "verify_password"
                  => \A i \in RowsOf(req[p].email) :
                        /\ ~IsNone(users'[i].password_hash)
                        /\ VerifyPassword(Get(req[p].new_password),
                                          Get(users'[i].password_hash))
            /\ pc[p] # "verify_password" => ~PasswordChanged]_vars

\* the record r with the OTP columns of the record o
WithOtpOf(r, o) ==
    [r EXCEPT !.otp_code = o.otp_code, !.otp_expires_at = o.otp_expires_at,
              !.otp_serial = o.otp_serial]

\* C12: request_otp answers 404 exactly when no user has the email, and then
\* changes no record; otherwise its storing step answers 200 and puts the code
\* it drew, with the time it read the clock at plus 10 minutes, on the records
\* of that email, changing no other column of them, no record of another
\* email, and creating none.
C12_RequestOtpContract ==
    [][\A p \in Procs :
        (req[p].op = "request_otp" /\ StepOf(p)) =>
            /\ pc[p] = "otp_select"
                  => /\ Answered(p, 404) <=> RowsOf(req[p].email) = {}
                     /\ users' = users
            /\ pc[p] = "otp_issue" => users' = users
            /\ pc'[p] = "idle" /\ ~Answered(p, 404) => pc[p] = "otp_set"
            /\ pc[p] = "otp_set"
                  => /\ Answered(p, 200)
                     /\ Len(users') = Len(users)
                     /\ \A i \in 1..Len(users) :
                          IF users[i].email = req[p].email
                          THEN /\ users'[i].otp_code = Some(loc[p].otp)
                               /\ users'[i].otp_expires_at = Some(loc[p].read_at + 10)
                               /\ WithOtpOf(users'[i], users[i]) = users[i]
                          ELSE users'[i] = users[i]]_vars

\* request_otp has stored its code, drawn after the clock had moved, while a
\* user with another email is on file
C12_Witness ==
    /\ last.req.op = "request_otp" /\ last.status = 200
    /\ last.loc.read_at > 0
    /\ \E i \in 1..Len(users) : users[i].email # last.req.email
    /\ \E j \in RowsOf(last.req.email) :
        /\ users[j].otp_code = Some(last.loc.otp)
        /\ users[j].otp_expires_at = Some(last.loc.read_at + 10)

OAuthCallbacks == {"google_callback", "facebook_callback"}

\* C13: an OAuth callback, of either provider, reaches the creation of a user
\* or the token only after the provider's code exchange has succeeded and
\* given an email; a callback whose exchange has not done so gets no token,
\* and is answered 400 unless the exchange could not be attempted or carried
\* out at all (no configuration, the provider unreachable).
C13_CallbackNeedsExchange ==
    /\ \A p \in Procs :
        (req[p].op \in OAuthCallbacks
            /\ pc[p] \in {"google_insert", "facebook_insert", "create_token"})
            => loc[p].exchanged
    /\ (last.req.op \in OAuthCallbacks /\ ~last.loc.exchanged)
            => /\ IsNone(last.token)
               /\ last.loc.outcome \notin {"unconfigured", "transport_error"}
                     => last.status = 400

Digits == {"0", "1", "2", "3", "4", "5", "6", "7", "8", "9"}

\* whether the string is made of exactly 6 decimal digits
IsSixDigits(code) ==
    /\ Len(code) = 6
    /\ \A k \in 1..Len(code) : SubSeq(code, k, k) \in Digits

\* draws at the ends of the range of randbelow and where the number of digits
\* changes
OtpSamples == {0, 9, 10, 99, 100, 12345, 99999, 100000, RANDBELOW_BOUND - 1}

\* C14: every code request_otp stores, and every code it has drawn, is a
\* string of exactly 6 decimal digits, as is the code made of any draw (a
\* property of the formatting alone: evaluated before the first request).
C14_SixDigitCode ==
    /\ served = 0 => \A n \in OtpSamples : IsSixDigits(FormatOtp(n))
    /\ \A i \in 1..Len(users) :
        ~IsNone(users[i].otp_code) => IsSixDigits(Get(users[i].otp_code))
    /\ \A s \in 1..Len(stored) : IsSixDigits(stored[s].code)
    /\ \A p \in Procs : pc[p] = "otp_set" => IsSixDigits(loc[p].otp)

\* a code that needed padding and the code of the largest draw have both been
\* stored
C14_Witness ==
    /\ \E s \in 1..Len(stored) : stored[s].code = "000007"
    /\ \E s \in 1..Len(stored) : stored[s].code = "999998"
    /\ \E i \in 1..Len(users) : ~IsNone(users[i].otp_code)

ReadOnlyOps == {"logout", "login", "google_start", "facebook_start"}

\* C15: no step of a logout, a login or an OAuth start request changes or
\* creates a user record, whatever it answers; and logout answers 200 in its
\* one step.
C15_ReadOnlyEndpoints ==
    [][\A p \in Procs :
        (req[p].op \in ReadOnlyOps /\ StepOf(p)) =>
            /\ users' = users
            /\ req[p].op = "logout" => Answered(p, 200)]_vars

\* logout has been acknowledged while a code is on file and another request is
\* under way
C15_Witness ==
    /\ last.req.op = "logout" /\ last.status = 200
    /\ \E i \in 1..Len(users) : ~IsNone(users[i].otp_code)
    /\ \E q \in Procs : pc[q] # "idle"

\* C16: the clearing step of a successful verify_otp clears only the code it
\* validated: a code that request_otp has stored on the record since the
\* verify's SELECT is still on file, with its expiry, after the step.
C16_ClearsOnlyValidated ==
    [][\A p \in Procs :
        (pc[p] = "consume_update" /\ StepOf(p)) =>
            \A i \in RowsOf(req[p].email) :
                (users[i].otp_serial # 0 /\ users[i].otp_serial # loc[p].serial)
                    => /\ users'[i].otp_code = users[i].otp_code
                       /\ users'[i].otp_expires_at = users[i].otp_expires_at]_vars

\* C17: a verify_otp that fails (404 or 400) has changed nothing in the users
\* table: it fails only from its lookup, its SELECT or its clock check, and
\* none of these steps changes a record.  A code on file that a wrong guess
\* has left there is still verifiable: the SELECT lets the matching code
\* through and the clock check lets it through until its expiry.
C17_FailedVerifyNoChange ==
    [][\A p \in Procs :
        (req[p].op = "verify_otp" /\ StepOf(p)) =>
            /\ (pc'[p] = "idle" /\ last'.status # 200)
                  => /\ users' = users
                     /\ pc[p] \in {"verify_select", "consume_select", "consume_clock"}
            /\ pc[p] \in {"verify_select", "consume_select", "consume_clock"}
                  => users' = users
            /\ (pc[p] = "consume_select" /\ CodeOnFile(req[p].email, req[p].otp))
                  => pc'[p] # "idle"
            /\ (pc[p] = "consume_clock" /\ now <= Get(Get(loc[p].row).otp_expires_at))
                  => pc'[p] = "consume_update"]_vars

\* a wrong guess has been rejected and the code on file, not yet expired, is
\* still there
C17_Witness ==
    /\ last.req.op = "verify_otp" /\ last.status = 400 /\ IsNone(last.loc.row)
    /\ ~IsNone(FirstRow(last.req.email))
    /\ ~IsNone(Get(FirstRow(last.req.email)).otp_code)
    /\ Get(Get(FirstRow(last.req.email)).otp_code) # last.req.otp
    /\ now <= Get(Get(FirstRow(last.req.email)).otp_expires_at)

\* whether the verify_otp just answered arrived after at least two codes had
\* been stored, the last of them for its email, and no code has been stored
\* since
AfterLatestCode ==
    /\ last.req.op = "verify_otp"
    /\ last.req.issued >= 2
    /\ Len(stored) = last.req.issued
    /\ stored[Len(stored)].email = last.req.email

\* C18: only the last code stored for a user is valid.  A verify_otp that
\* arrives after two request_otp have stored different codes for its email is
\* answered 400 when it carries the earlier code; when it carries the later
\* one it is turned down only if the clock is past that code's expiry or
\* another verify_otp has consumed it.
C18_OnlyLatestCodeValid ==
    AfterLatestCode =>
        /\ \A m \in 1..(Len(stored) - 1) :
            (/\ stored[m].email = last.req.email
             /\ stored[m].code # stored[Len(stored)].code
             /\ last.req.otp = stored[m].code) => last.status = 400
        /\ (last.req.otp = stored[Len(stored)].code /\ last.status # 200)
              => /\ last.status = 400
                 /\ \/ now > stored[Len(stored)].at + 10
                    \/ Get(FirstRow(last.req.email)).otp_serial # Len(stored)

\* the earlier of two different codes has been turned down while the later one
\* is on file and has not expired
C18_Witness ==
    /\ AfterLatestCode
    /\ last.status = 400
    /\ last.req.otp # stored[Len(stored)].code
    /\ \E m \in 1..(Len(stored) - 1) :
        stored[m].email = last.req.email /\ stored[m].code = last.req.otp
    /\ Get(FirstRow(last.req.email)).otp_code = Some(stored[Len(stored)].code)
    /\ now <= Get(Get(FirstRow(last.req.email)).otp_expires_at)

\* C19: a step changes the password_hash of an existing record only if it is
\* the password step of a verify_otp that has consumed a code and carries a
\* new_password; no step of any other request, and no other step of
\* verify_otp, does.
C19_PasswordOnlyByVerify ==
    [][PasswordChanged =>
        \E p \in Procs :
            /\ StepOf(p)
            /\ req[p].op = "verify_otp"
            /\ pc[p] = "verify_password"
            /\ ~IsNone(req[p].new_password)
            /\ loc[p].serial # 0]_vars

\* a verify_otp with a new password has replaced the hash it had read
C19_Witness ==
    \E p \in Procs :
        /\ req[p].op = "verify_otp" /\ pc[p] = "create_token"
        /\ ~IsNone(req[p].new_password)
        /\ ~IsNone(Get(loc[p].user).password_hash)
        /\ \E i \in RowsOf(req[p].email) :
            /\ users[i].id = Get(loc[p].user).id
            /\ users[i].password_hash # Get(loc[p].user).password_hash
            /\ VerifyPassword(Get(req[p].new_password), Get(users[i].password_hash))

\* the email an OAuth callback in slot p looks up
CallbackEmail(p) ==
    IF req[p].op = "facebook_callback" THEN FacebookEmail(req[p].code)
    ELSE loc[p].email

\* C20: an OAuth callback whose lookup finds a record with its email goes
\* straight to the token, with the id of a record of that email as subject,
\* and answers 200 with it; and no step of a callback changes an existing
\* record (no provider, provider_id, password_hash or display_name is touched).
C20_CallbackNoLinking ==
    [][\A p \in Procs :
        (req[p].op \in OAuthCallbacks /\ StepOf(p)) =>
            /\ (pc[p] \in {"google_select", "facebook_select"}
                    /\ RowsOf(CallbackEmail(p)) # {})
                  => /\ pc'[p] = "create_token"
                     /\ \E i \in RowsOf(CallbackEmail(p)) : loc'[p].sub = users[i].id
                     /\ users' = users
            /\ pc[p] = "create_token"
                  => /\ Answered(p, 200)
                     /\ ~IsNone(last'.token)
                     /\ Get(last'.token).sub = Str(loc[p].sub)
            /\ \A i \in 1..Len(users) : users'[i] = users[i]]_vars

\* a Google callback has got a token for a user that signed up with a
\* password, and that record is still a local one
C20_Witness ==
    /\ last.req.op = "google_callback" /\ last.status = 200
    /\ RowsOf(last.loc.email) # {}
    /\ \A i \in RowsOf(last.loc.email) :
        /\ users[i].provider = "local"
        /\ IsNone(users[i].provider_id)
        /\ ~IsNone(users[i].password_hash)
        /\ Get(last.token).sub = Str(users[i].id)
====
